---- MODULE Spec2Model ----
(***************************************************************************)
(* Model of the pg_promoter background worker (pg_promoter.c).             *)
(*                                                                         *)
(* The worker is one sequential process (PromoterMain) whose position is   *)
(* pc; the SIGTERM/SIGHUP handlers run on the same thread and interrupt it *)
(* between any two of its steps, so each handler is one atomic action.     *)
(* The postmaster, the primary server, the file system and the             *)
(* configuration file are the environment.                                 *)
(***************************************************************************)
EXTENDS Integers, Sequences, FiniteSets, TLC

(* ---------------------------------------------------------------------- *)
(* Bounds of the model                                                     *)
(* ---------------------------------------------------------------------- *)
\* heartbeat probes performed in one run
MaxProbes == 6

(* ---------------------------------------------------------------------- *)
(* Program constants and input domains                                     *)
(* ---------------------------------------------------------------------- *)
\* "if (retry_count >= 5)"
RetryLimit == 5

\* "promoter_keepalives * 1000L"
MsPerSec == 1000

\* boot value of pg_promoter.keepalives
DefaultKeepalives == 3

\* values of pg_promoter.keepalives found in the configuration file
KeepalivesValues == {1, DefaultKeepalives}

\* what PQconnectdb can hand back: no object, a CONNECTION_BAD object,
\* a CONNECTION_OK object
ConnResults == {"NULL", "BAD", "OK"}

\* what the primary answers to HEARTBEAT_SQL on a good connection
ResultStatuses == {"PGRES_TUPLES_OK", "PGRES_COMMAND_OK", "PGRES_FATAL_ERROR"}

\* number of rows in the answer
RowCounts == {0, 1, 2}

\* bits of the WaitLatch result
WakeBits == {"WL_LATCH_SET", "WL_TIMEOUT", "WL_POSTMASTER_DEATH"}

\* positions inside doPromote
PromotePcs == {"fopen", "fclose", "log", "kill", "return"}

\* positions inside the body of the main loop
LoopPcs == {"loop", "wait", "reset", "death_check", "sighup_check",
            "sighup_clear", "reload", "probe", "threshold"}

VARIABLES
    pc,                  \* position of PromoterMain
    got_sighup,          \* flag set by the SIGHUP handler
    got_sigterm,         \* flag set by the SIGTERM handler
    latch,               \* MyProc->procLatch is set
    rc,                  \* result of the last WaitLatch
    retry_count,         \* failed heartbeats so far
    promoter_keepalives, \* GUC pg_promoter.keepalives
    confFile,            \* pg_promoter.keepalives in the configuration file
    postmasterAlive,     \* the postmaster is running
    waitTimeout,         \* timeout argument of the last WaitLatch call (ms)
    exitCode,            \* argument of proc_exit, -1 while running
    exitAt,              \* position proc_exit was called from
    triggerCreated,      \* fopen of the trigger file succeeded
    triggerClosed,       \* fclose of the trigger file succeeded
    killAttempted,       \* kill(PostmasterPid, SIGUSR1) was called
    sigusr1Sent,         \* kill(PostmasterPid, SIGUSR1) returned 0
    promoteLogged,       \* "promote standby server to primary server" logged
    promoteCalls,        \* number of times doPromote was entered
    probes,              \* results of heartbeatPrimaryServer, in order
    startCon,            \* what PQconnectdb returned in initialize
    sigtermAt,           \* where the first SIGTERM found PromoterMain
    wokenBySighup,       \* the last WaitLatch returned for a SIGHUP alone
    reloadedThisIter,    \* ProcessConfigFile ran in this loop iteration
    hupSinceCheck,       \* a SIGHUP arrived since the last test of got_sighup
    hupSinceClear,       \* a SIGHUP arrived since got_sighup was last cleared
    hb                   \* the heartbeat examined on its own: what the
                         \* primary does and what the call returned

vars == <<pc, got_sighup, got_sigterm, latch, rc, retry_count,
          promoter_keepalives, confFile, postmasterAlive, waitTimeout,
          exitCode, exitAt, triggerCreated, triggerClosed,
          killAttempted, sigusr1Sent, promoteLogged, promoteCalls, probes,
          startCon, sigtermAt, wokenBySighup, reloadedThisIter, hupSinceCheck,
          hupSinceClear, hb>>

\* variables written by the signal handlers and the environment
envVars == <<got_sighup, got_sigterm, latch, confFile, postmasterAlive,
             sigtermAt>>

\* variables written by doPromote
promoteVars == <<triggerCreated, triggerClosed, killAttempted, sigusr1Sent,
                 promoteLogged>>

\* variables written by the wait step
waitVars == <<rc, waitTimeout, wokenBySighup>>

(* ---------------------------------------------------------------------- *)
(* Pure helpers                                                            *)
(* ---------------------------------------------------------------------- *)
\* PQexec on a connection that is not CONNECTION_OK yields no result, and
\* PQresultStatus of no result is PGRES_FATAL_ERROR
PQexecStatus(con, reply) ==
    IF con = "OK" THEN reply ELSE "PGRES_FATAL_ERROR"

\* the status of the answer is not looked at
heartbeatPrimaryServer_nostatus(con, reply, ntuples) ==
    IF con = "NULL" THEN FALSE ELSE TRUE

\* heartbeatPrimaryServer: the row count of the answer is not looked at
heartbeatPrimaryServer(con, reply, ntuples) ==
    IF con = "NULL" THEN FALSE
    ELSE IF PQexecStatus(con, reply) # "PGRES_TUPLES_OK" THEN FALSE
    ELSE TRUE

\* initialize treats only a missing connection object as a failure
InitConnFailed(con) == con = "NULL"

\* the promotion test of the main loop
ThresholdReached_above(n) == n > RetryLimit

\* the promotion test is off by one
ThresholdReached_late(n) == n >= RetryLimit + 1

ThresholdReached(n) == n >= RetryLimit

\* the counter is zeroed by a successful heartbeat
NextRetryCount_reset(n, ok) == IF ok THEN 0 ELSE n + 1

\* "if (!heartbeatPrimaryServer()) retry_count++;"
NextRetryCount(n, ok) == IF ok THEN n ELSE n + 1

\* number of FALSE in s
RECURSIVE FailCount(_)
FailCount(s) ==
    IF s = <<>> THEN 0
    ELSE (IF Head(s) THEN 0 ELSE 1) + FailCount(Tail(s))

\* the timeout handed to WaitLatch; the product is a long, which holds
\* INT_MAX * 1000 where long has 64 bits
WaitTimeoutMs_seconds(k) == k

WaitTimeoutMs(k) == k * MsPerSec

\* length of the longest stretch of consecutive FALSE in s
RECURSIVE RunsFrom(_, _, _, _)
RunsFrom(s, i, cur, best) ==
    IF i > Len(s) THEN best
    ELSE IF s[i] THEN RunsFrom(s, i + 1, 0, best)
    ELSE RunsFrom(s, i + 1, cur + 1,
                  IF cur + 1 > best THEN cur + 1 ELSE best)

LongestFailRun(s) == RunsFrom(s, 1, 0, 0)

\* the part of PromoterMain a position belongs to: blocked in WaitLatch,
\* elsewhere in the main loop, inside doPromote
Phase(p) ==
    IF p = "wait" THEN "wait"
    ELSE IF p \in PromotePcs THEN "promote"
    ELSE "loop"

AllFailed(s) == \A i \in 1..Len(s) : ~s[i]

\* no heartbeat is examined on its own
NoHeartbeat ==
    [con |-> "none", reply |-> "none", rows |-> 0, result |-> "none"]

\* how a return value of heartbeatPrimaryServer is recorded
ResultName(ok) == IF ok THEN "success" ELSE "failure"

\* proc_exit(code) called at the current position
ProcExit(code) ==
    /\ pc' = "exit"
    /\ exitCode' = code
    /\ exitAt' = pc

NoExit == UNCHANGED <<exitCode, exitAt>>

(* ---------------------------------------------------------------------- *)
(* Initial state: the library is loaded, the worker has been forked.       *)
(* ---------------------------------------------------------------------- *)
Init ==
    /\ pc = "initialize"
    /\ got_sighup = FALSE
    /\ got_sigterm = FALSE
    /\ latch = FALSE
    /\ rc = {}
    /\ retry_count = 0
    /\ promoter_keepalives = DefaultKeepalives
    /\ confFile = promoter_keepalives
    /\ postmasterAlive = TRUE
    /\ waitTimeout = 0
    /\ exitCode = -1
    /\ exitAt = "none"
    /\ triggerCreated = FALSE
    /\ triggerClosed = FALSE
    /\ killAttempted = FALSE
    /\ sigusr1Sent = FALSE
    /\ promoteLogged = FALSE
    /\ promoteCalls = 0
    /\ probes = <<>>
    /\ startCon = "none"
    /\ sigtermAt = "none"
    /\ wokenBySighup = FALSE
    /\ reloadedThisIter = FALSE
    /\ hupSinceCheck = FALSE
    /\ hupSinceClear = FALSE
    /\ hb = NoHeartbeat

(* ---------------------------------------------------------------------- *)
(* Signal handlers and environment                                         *)
(* ---------------------------------------------------------------------- *)
\* signals reach the handlers once BackgroundWorkerUnblockSignals has run
SignalsUnblocked == pc \notin {"initialize", "exit"}

pg_promoter_sigterm ==
    /\ SignalsUnblocked
    /\ got_sigterm' = TRUE
    /\ latch' = TRUE
    /\ sigtermAt' = IF sigtermAt = "none" THEN Phase(pc) ELSE sigtermAt
    /\ UNCHANGED <<pc, got_sighup, rc, retry_count, promoter_keepalives,
                   confFile, postmasterAlive, probes, startCon,
                   promoteCalls, reloadedThisIter>>
    /\ UNCHANGED waitVars
    /\ UNCHANGED promoteVars
    /\ NoExit
    /\ UNCHANGED <<hupSinceCheck, hupSinceClear, hb>>

\* the handler counts requests: a second SIGHUP takes the first one back
pg_promoter_sighup_toggle ==
    /\ SignalsUnblocked
    /\ got_sighup' = ~got_sighup
    /\ latch' = TRUE
    /\ UNCHANGED <<pc, got_sigterm, sigtermAt, rc, retry_count,
                   promoter_keepalives, confFile, postmasterAlive, probes,
                   startCon, promoteCalls, reloadedThisIter>>
    /\ UNCHANGED waitVars
    /\ UNCHANGED promoteVars
    /\ NoExit
    /\ hupSinceCheck' = TRUE
    /\ hupSinceClear' = TRUE
    /\ UNCHANGED hb

pg_promoter_sighup ==
    /\ SignalsUnblocked
    /\ got_sighup' = TRUE
    /\ latch' = TRUE
    /\ UNCHANGED <<pc, got_sigterm, sigtermAt, rc, retry_count,
                   promoter_keepalives, confFile, postmasterAlive, probes,
                   startCon, promoteCalls, reloadedThisIter>>
    /\ UNCHANGED waitVars
    /\ UNCHANGED promoteVars
    /\ NoExit
    /\ hupSinceCheck' = TRUE
    /\ hupSinceClear' = TRUE
    /\ UNCHANGED hb

\* the administrator edits pg_promoter.keepalives in the configuration file
EditConf ==
    /\ pc # "exit"
    /\ \E k \in KeepalivesValues \ {confFile} : confFile' = k
    /\ UNCHANGED <<pc, got_sighup, got_sigterm, latch, sigtermAt, rc,
                   retry_count, promoter_keepalives, postmasterAlive, probes,
                   startCon, promoteCalls, reloadedThisIter>>
    /\ UNCHANGED waitVars
    /\ UNCHANGED promoteVars
    /\ NoExit
    /\ UNCHANGED <<hupSinceCheck, hupSinceClear, hb>>

PostmasterDies ==
    /\ pc # "exit"
    /\ postmasterAlive
    /\ postmasterAlive' = FALSE
    /\ UNCHANGED <<pc, got_sighup, got_sigterm, latch, sigtermAt, rc,
                   retry_count, promoter_keepalives, confFile, probes,
                   startCon, promoteCalls, reloadedThisIter>>
    /\ UNCHANGED waitVars
    /\ UNCHANGED promoteVars
    /\ NoExit
    /\ UNCHANGED <<hupSinceCheck, hupSinceClear, hb>>

(* ---------------------------------------------------------------------- *)
(* PromoterMain                                                            *)
(* ---------------------------------------------------------------------- *)
\* initialize(), then pqsignal x2 and BackgroundWorkerUnblockSignals
initialize ==
    /\ pc = "initialize"
    /\ \E con \in ConnResults :
          /\ startCon' = con
          /\ retry_count' = 0
          /\ IF InitConnFailed(con)
             THEN ProcExit(1)
             ELSE pc' = "loop" /\ NoExit
    /\ UNCHANGED <<rc, promoter_keepalives, probes, promoteCalls,
                   reloadedThisIter, waitTimeout, wokenBySighup>>
    /\ UNCHANGED envVars
    /\ UNCHANGED promoteVars
    /\ UNCHANGED <<hupSinceCheck, hupSinceClear, hb>>

\* "while (true)": the shutdown flag is not looked at
LoopCheck_forever ==
    /\ pc = "loop"
    /\ IF FALSE
       THEN /\ ProcExit(1)
            /\ UNCHANGED <<waitTimeout, reloadedThisIter>>
       ELSE /\ Len(probes) < MaxProbes
            /\ pc' = "wait"
            /\ waitTimeout' = WaitTimeoutMs(promoter_keepalives)
            /\ reloadedThisIter' = FALSE
            /\ NoExit
    /\ UNCHANGED <<rc, wokenBySighup, retry_count, promoter_keepalives,
                   probes, startCon, promoteCalls>>
    /\ UNCHANGED envVars
    /\ UNCHANGED promoteVars
    /\ UNCHANGED <<hupSinceCheck, hupSinceClear, hb>>

\* "while (!got_sigterm)": leave the loop and proc_exit(1), or call
\* WaitLatch with the current promoter_keepalives
LoopCheck ==
    /\ pc = "loop"
    /\ IF got_sigterm
       THEN /\ ProcExit(1)
            /\ UNCHANGED <<waitTimeout, reloadedThisIter>>
       ELSE /\ Len(probes) < MaxProbes
            /\ pc' = "wait"
            /\ waitTimeout' = WaitTimeoutMs(promoter_keepalives)
            /\ reloadedThisIter' = FALSE
            /\ NoExit
    /\ UNCHANGED <<rc, wokenBySighup, retry_count, promoter_keepalives,
                   probes, startCon, promoteCalls>>
    /\ UNCHANGED envVars
    /\ UNCHANGED promoteVars
    /\ UNCHANGED <<hupSinceCheck, hupSinceClear, hb>>

\* WaitLatch returns: the timer may always have elapsed, WL_LATCH_SET needs
\* a set latch, WL_POSTMASTER_DEATH needs a dead postmaster
WaitLatchReturn ==
    /\ pc = "wait"
    /\ \E S \in (SUBSET WakeBits) \ {{}} :
          /\ "WL_LATCH_SET" \in S => latch
          /\ "WL_POSTMASTER_DEATH" \in S => ~postmasterAlive
          /\ rc' = S
          /\ wokenBySighup' =
                (S = {"WL_LATCH_SET"} /\ got_sighup /\ ~got_sigterm)
    /\ pc' = "reset"
    /\ UNCHANGED <<waitTimeout, retry_count, promoter_keepalives, probes,
                   startCon, promoteCalls, reloadedThisIter>>
    /\ UNCHANGED envVars
    /\ UNCHANGED promoteVars
    /\ NoExit
    /\ UNCHANGED <<hupSinceCheck, hupSinceClear, hb>>

ResetLatch ==
    /\ pc = "reset"
    /\ latch' = FALSE
    /\ pc' = "death_check"
    /\ UNCHANGED <<got_sighup, got_sigterm, confFile, postmasterAlive,
                   sigtermAt, retry_count, promoter_keepalives, probes,
                   startCon, promoteCalls, reloadedThisIter>>
    /\ UNCHANGED waitVars
    /\ UNCHANGED promoteVars
    /\ NoExit
    /\ UNCHANGED <<hupSinceCheck, hupSinceClear, hb>>

\* the emergency bailout left out: the loop body goes on
DeathCheck_fallthrough ==
    /\ pc = "death_check"
    /\ pc' = "sighup_check"
    /\ NoExit
    /\ UNCHANGED <<retry_count, promoter_keepalives, probes, startCon,
                   promoteCalls, reloadedThisIter>>
    /\ UNCHANGED waitVars
    /\ UNCHANGED envVars
    /\ UNCHANGED promoteVars
    /\ UNCHANGED <<hupSinceCheck, hupSinceClear, hb>>

\* "if (rc & WL_POSTMASTER_DEATH) proc_exit(1);"
DeathCheck ==
    /\ pc = "death_check"
    /\ IF "WL_POSTMASTER_DEATH" \in rc
       THEN ProcExit(1)
       ELSE pc' = "sighup_check" /\ NoExit
    /\ UNCHANGED <<retry_count, promoter_keepalives, probes, startCon,
                   promoteCalls, reloadedThisIter>>
    /\ UNCHANGED waitVars
    /\ UNCHANGED envVars
    /\ UNCHANGED promoteVars
    /\ UNCHANGED <<hupSinceCheck, hupSinceClear, hb>>

\* "if (got_sighup)"
SighupCheck ==
    /\ pc = "sighup_check"
    /\ pc' = IF got_sighup THEN "sighup_clear" ELSE "probe"
    /\ UNCHANGED <<retry_count, promoter_keepalives, probes, startCon,
                   promoteCalls, reloadedThisIter>>
    /\ UNCHANGED waitVars
    /\ UNCHANGED envVars
    /\ UNCHANGED promoteVars
    /\ NoExit
    /\ hupSinceCheck' = FALSE
    /\ UNCHANGED <<hupSinceClear, hb>>

\* the flag is cleared and the call of ProcessConfigFile is missing
SighupClear_noreload ==
    /\ pc = "sighup_clear"
    /\ got_sighup' = FALSE
    /\ pc' = "probe"
    /\ UNCHANGED <<got_sigterm, latch, confFile, postmasterAlive, sigtermAt,
                   retry_count, promoter_keepalives, probes, startCon,
                   promoteCalls, reloadedThisIter>>
    /\ UNCHANGED waitVars
    /\ UNCHANGED promoteVars
    /\ NoExit
    /\ hupSinceClear' = FALSE
    /\ UNCHANGED <<hupSinceCheck, hb>>

\* "got_sighup = false;"
SighupClear ==
    /\ pc = "sighup_clear"
    /\ got_sighup' = FALSE
    /\ pc' = "reload"
    /\ UNCHANGED <<got_sigterm, latch, confFile, postmasterAlive, sigtermAt,
                   retry_count, promoter_keepalives, probes, startCon,
                   promoteCalls, reloadedThisIter>>
    /\ UNCHANGED waitVars
    /\ UNCHANGED promoteVars
    /\ NoExit
    /\ hupSinceClear' = FALSE
    /\ UNCHANGED <<hupSinceCheck, hb>>

\* "ProcessConfigFile(PGC_SIGHUP);"
ProcessConfigFile ==
    /\ pc = "reload"
    /\ promoter_keepalives' = confFile
    /\ reloadedThisIter' = TRUE
    /\ pc' = "probe"
    /\ UNCHANGED <<retry_count, probes, startCon, promoteCalls>>
    /\ UNCHANGED waitVars
    /\ UNCHANGED envVars
    /\ UNCHANGED promoteVars
    /\ NoExit
    /\ UNCHANGED <<hupSinceCheck, hupSinceClear, hb>>

\* "if (!heartbeatPrimaryServer()) retry_count++;"
Heartbeat ==
    /\ pc = "probe"
    /\ \E con \in ConnResults, reply \in ResultStatuses, n \in RowCounts :
          LET ok == heartbeatPrimaryServer(con, reply, n) IN
          /\ probes' = Append(probes, ok)
          /\ retry_count' = NextRetryCount(retry_count, ok)
    /\ pc' = "threshold"
    /\ UNCHANGED <<promoter_keepalives, startCon, promoteCalls,
                   reloadedThisIter>>
    /\ UNCHANGED waitVars
    /\ UNCHANGED envVars
    /\ UNCHANGED promoteVars
    /\ NoExit
    /\ UNCHANGED <<hupSinceCheck, hupSinceClear, hb>>

\* "if (retry_count >= 5) { doPromote(); ..."
ThresholdCheck ==
    /\ pc = "threshold"
    /\ IF ThresholdReached(retry_count)
       THEN pc' = "fopen" /\ promoteCalls' = promoteCalls + 1
       ELSE pc' = "loop" /\ UNCHANGED promoteCalls
    /\ UNCHANGED <<retry_count, promoter_keepalives, probes, startCon,
                   reloadedThisIter>>
    /\ UNCHANGED waitVars
    /\ UNCHANGED envVars
    /\ UNCHANGED promoteVars
    /\ NoExit
    /\ UNCHANGED <<hupSinceCheck, hupSinceClear, hb>>

(* ---------------------------------------------------------------------- *)
(* doPromote                                                               *)
(* ---------------------------------------------------------------------- *)
promoteFrame ==
    /\ UNCHANGED <<rc, retry_count, promoter_keepalives, probes, startCon,
                   promoteCalls, reloadedThisIter, waitTimeout,
                   wokenBySighup>>
    /\ UNCHANGED envVars

\* a failed fopen is logged but the promotion goes on
Fopen_noexit ==
    /\ pc = "fopen"
    /\ \E ok \in BOOLEAN : triggerCreated' = ok
    /\ pc' = "fclose"
    /\ NoExit
    /\ UNCHANGED <<triggerClosed, killAttempted, sigusr1Sent, promoteLogged>>
    /\ promoteFrame
    /\ UNCHANGED <<hupSinceCheck, hupSinceClear, hb>>

\* "if ((fp = fopen(trigger_filepath, "w")) == NULL) ... proc_exit(1);"
Fopen ==
    /\ pc = "fopen"
    /\ \E ok \in BOOLEAN :
          IF ok
          THEN triggerCreated' = TRUE /\ pc' = "fclose" /\ NoExit
          ELSE UNCHANGED triggerCreated /\ ProcExit(1)
    /\ UNCHANGED <<triggerClosed, killAttempted, sigusr1Sent, promoteLogged>>
    /\ promoteFrame
    /\ UNCHANGED <<hupSinceCheck, hupSinceClear, hb>>

\* a failed close is logged but the promotion goes on
Fclose_noexit ==
    /\ pc = "fclose"
    /\ \E ok \in BOOLEAN : triggerClosed' = ok
    /\ pc' = "log"
    /\ NoExit
    /\ UNCHANGED <<triggerCreated, killAttempted, sigusr1Sent, promoteLogged>>
    /\ promoteFrame
    /\ UNCHANGED <<hupSinceCheck, hupSinceClear, hb>>

\* "if (fclose(fp)) ... proc_exit(1);"
Fclose ==
    /\ pc = "fclose"
    /\ \E ok \in BOOLEAN :
          IF ok
          THEN triggerClosed' = TRUE /\ pc' = "log" /\ NoExit
          ELSE UNCHANGED triggerClosed /\ ProcExit(1)
    /\ UNCHANGED <<triggerCreated, killAttempted, sigusr1Sent, promoteLogged>>
    /\ promoteFrame
    /\ UNCHANGED <<hupSinceCheck, hupSinceClear, hb>>

\* "ereport(LOG, (errmsg("promote standby server to primary server")));"
LogPromote ==
    /\ pc = "log"
    /\ promoteLogged' = TRUE
    /\ pc' = "kill"
    /\ UNCHANGED <<triggerCreated, triggerClosed, killAttempted, sigusr1Sent>>
    /\ promoteFrame
    /\ NoExit
    /\ UNCHANGED <<hupSinceCheck, hupSinceClear, hb>>

\* a failed kill is logged but doPromote returns normally
Kill_noexit ==
    /\ pc = "kill"
    /\ killAttempted' = TRUE
    /\ \E ok \in BOOLEAN : sigusr1Sent' = ok
    /\ pc' = "return"
    /\ NoExit
    /\ UNCHANGED <<triggerCreated, triggerClosed, promoteLogged>>
    /\ promoteFrame
    /\ UNCHANGED <<hupSinceCheck, hupSinceClear, hb>>

\* the signal is not sent when a shutdown request is pending
Kill_interruptible ==
    /\ pc = "kill"
    /\ IF got_sigterm
       THEN UNCHANGED <<killAttempted, sigusr1Sent>> /\ ProcExit(1)
       ELSE /\ killAttempted' = TRUE
            /\ \E ok \in BOOLEAN :
                  IF ok
                  THEN sigusr1Sent' = TRUE /\ pc' = "return" /\ NoExit
                  ELSE UNCHANGED sigusr1Sent /\ ProcExit(1)
    /\ UNCHANGED <<triggerCreated, triggerClosed, promoteLogged>>
    /\ promoteFrame
    /\ UNCHANGED <<hupSinceCheck, hupSinceClear, hb>>

\* "if (kill(PostmasterPid, SIGUSR1) != 0) ... proc_exit(1);"
Kill ==
    /\ pc = "kill"
    /\ killAttempted' = TRUE
    /\ \E ok \in BOOLEAN :
          IF ok
          THEN sigusr1Sent' = TRUE /\ pc' = "return" /\ NoExit
          ELSE UNCHANGED sigusr1Sent /\ ProcExit(1)
    /\ UNCHANGED <<triggerCreated, triggerClosed, promoteLogged>>
    /\ promoteFrame
    /\ UNCHANGED <<hupSinceCheck, hupSinceClear, hb>>

\* doPromote returns and the proc_exit(0) is missing: the loop goes on
PromoteReturn_noexit ==
    /\ pc = "return"
    /\ pc' = "loop"
    /\ NoExit
    /\ UNCHANGED promoteVars
    /\ promoteFrame
    /\ UNCHANGED <<hupSinceCheck, hupSinceClear, hb>>

\* doPromote returns; "proc_exit(0);"
PromoteReturn ==
    /\ pc = "return"
    /\ ProcExit(0)
    /\ UNCHANGED promoteVars
    /\ promoteFrame
    /\ UNCHANGED <<hupSinceCheck, hupSinceClear, hb>>

(* ---------------------------------------------------------------------- *)
(* Specification                                                           *)
(* ---------------------------------------------------------------------- *)
Next ==
    \/ initialize
    \/ LoopCheck
    \/ WaitLatchReturn
    \/ ResetLatch
    \/ DeathCheck
    \/ SighupCheck
    \/ SighupClear
    \/ ProcessConfigFile
    \/ Heartbeat
    \/ ThresholdCheck
    \/ Fopen
    \/ Fclose
    \/ LogPromote
    \/ Kill
    \/ PromoteReturn
    \/ pg_promoter_sigterm
    \/ pg_promoter_sighup
    \/ EditConf
    \/ PostmasterDies

Spec == Init /\ [][Next]_vars

\* the steps of the worker process itself
MainStep ==
    \/ initialize
    \/ LoopCheck
    \/ WaitLatchReturn
    \/ ResetLatch
    \/ DeathCheck
    \/ SighupCheck
    \/ SighupClear
    \/ ProcessConfigFile
    \/ Heartbeat
    \/ ThresholdCheck
    \/ Fopen
    \/ Fclose
    \/ LogPromote
    \/ Kill
    \/ PromoteReturn

\* the worker with the signals and the postmaster around it; edits of the
\* configuration file are left out, since no test of the worker reads
\* promoter_keepalives or the timeout of the wait
FairNext ==
    \/ MainStep
    \/ pg_promoter_sigterm
    \/ pg_promoter_sighup
    \/ PostmasterDies

\* the worker is scheduled as long as it has a step to take: WaitLatch
\* returns at the latest at its timeout and every library call returns;
\* nothing is assumed about the arrival of signals
FairSpec == Init /\ [][FairNext]_vars /\ WF_vars(MainStep)

(* ---------------------------------------------------------------------- *)
(* heartbeatPrimaryServer on its own: the state of the primary is drawn    *)
(* from the input domains, the call is applied to it, and the next call    *)
(* meets a primary in any state again.                                     *)
(* ---------------------------------------------------------------------- *)
HeartbeatInputs ==
    [con : ConnResults, reply : ResultStatuses, rows : RowCounts,
     result : {"pending"}]

\* everything but the heartbeat under examination and the probe history
probeFrame ==
    UNCHANGED <<pc, got_sighup, got_sigterm, latch, rc, retry_count,
                promoter_keepalives, confFile, postmasterAlive, waitTimeout,
                exitCode, exitAt, triggerCreated, triggerClosed,
                killAttempted, sigusr1Sent, promoteLogged, promoteCalls,
                startCon, sigtermAt, wokenBySighup, reloadedThisIter,
                hupSinceCheck, hupSinceClear>>

ProbeInit ==
    /\ pc = "probe"
    /\ got_sighup = FALSE
    /\ got_sigterm = FALSE
    /\ latch = FALSE
    /\ rc = {"WL_TIMEOUT"}
    /\ retry_count = 0
    /\ promoter_keepalives = DefaultKeepalives
    /\ confFile = promoter_keepalives
    /\ postmasterAlive = TRUE
    /\ waitTimeout = WaitTimeoutMs(promoter_keepalives)
    /\ exitCode = -1
    /\ exitAt = "none"
    /\ triggerCreated = FALSE
    /\ triggerClosed = FALSE
    /\ killAttempted = FALSE
    /\ sigusr1Sent = FALSE
    /\ promoteLogged = FALSE
    /\ promoteCalls = 0
    /\ probes = <<>>
    /\ startCon = "OK"
    /\ sigtermAt = "none"
    /\ wokenBySighup = FALSE
    /\ reloadedThisIter = FALSE
    /\ hupSinceCheck = FALSE
    /\ hupSinceClear = FALSE
    /\ hb \in HeartbeatInputs

\* the call of heartbeatPrimaryServer() returns
HeartbeatCall ==
    /\ hb.result = "pending"
    /\ LET ok == heartbeatPrimaryServer(hb.con, hb.reply, hb.rows) IN
          /\ hb' = [hb EXCEPT !.result = ResultName(ok)]
          /\ probes' = Append(probes, ok)
    /\ probeFrame

\* the primary is in some state when the next call is made
NextHeartbeat ==
    /\ hb.result \in {"success", "failure"}
    /\ Len(probes) < MaxProbes
    /\ hb' \in HeartbeatInputs
    /\ UNCHANGED probes
    /\ probeFrame

ProbeNext == HeartbeatCall \/ NextHeartbeat

ProbeSpec == ProbeInit /\ [][ProbeNext]_vars

TypeOK ==
    /\ pc \in LoopPcs \cup PromotePcs \cup {"initialize", "exit"}
    /\ got_sighup \in BOOLEAN /\ got_sigterm \in BOOLEAN
    /\ latch \in BOOLEAN /\ postmasterAlive \in BOOLEAN
    /\ rc \subseteq WakeBits
    /\ retry_count \in 0..(MaxProbes + 1)
    /\ promoter_keepalives \in KeepalivesValues
    /\ confFile \in KeepalivesValues
    /\ exitCode \in {-1, 0, 1}
    /\ probes \in Seq(BOOLEAN) /\ Len(probes) <= MaxProbes
    /\ startCon \in ConnResults \cup {"none"}

(* ---------------------------------------------------------------------- *)
(* Properties                                                              *)
(* ---------------------------------------------------------------------- *)

\* C1: when every probe of the run has failed, doPromote has been entered
\* exactly once as soon as the probe that brings the count to the threshold
\* has been evaluated, and has not been entered after any earlier probe;
\* it is never entered twice.
C1_PromoteOnceAtThreshold ==
    /\ promoteCalls <= 1
    /\ AllFailed(probes) =>
          /\ Len(probes) < RetryLimit =>
                promoteCalls = 0 /\ pc \notin PromotePcs
          /\ Len(probes) >= RetryLimit =>
                /\ Len(probes) = RetryLimit
                /\ pc \in {"threshold", "exit"} \cup PromotePcs
                /\ pc # "threshold" => promoteCalls = 1

\* C1 witness: five probes, all failed, postmaster alive, doPromote entered
C1_Witness ==
    /\ postmasterAlive
    /\ Len(probes) = RetryLimit
    /\ AllFailed(probes)
    /\ promoteCalls = 1
    /\ pc = "fopen"

\* C2: doPromote is never entered while the longest stretch of consecutive
\* failed probes is shorter than the threshold.
C2_NoPromoteBelowConsecutiveRun ==
    LongestFailRun(probes) < RetryLimit => promoteCalls = 0

\* C3: if SIGTERM arrived before doPromote was entered, the trigger file is
\* never created and SIGUSR1 is never sent.
C3_NoPromoteAfterSigterm ==
    sigtermAt \in {"wait", "loop"} =>
        ~triggerCreated /\ ~killAttempted /\ ~sigusr1Sent

\* C4: once SIGTERM has been delivered while the loop was blocked in
\* WaitLatch, no further heartbeat probe is executed.
C4_NoProbeAfterSigtermInWait ==
    [][sigtermAt = "wait" => probes' = probes]_vars

\* C5: SIGUSR1 is sent only when the trigger file has been created and
\* closed, the file is closed only after it was created, each step is
\* reached only with the earlier ones done and the later ones not, and a
\* run that ended in a failed creation or close never called kill.
C5_PromoteOrder ==
    /\ killAttempted => triggerCreated /\ triggerClosed
    /\ triggerClosed => triggerCreated
    /\ pc = "fopen" => ~triggerCreated /\ ~triggerClosed /\ ~killAttempted
    /\ pc = "fclose" => triggerCreated /\ ~triggerClosed /\ ~killAttempted
    /\ pc = "kill" => triggerCreated /\ triggerClosed /\ ~killAttempted
    /\ sigusr1Sent => killAttempted
    /\ (pc = "exit" /\ exitAt \in {"fopen", "fclose"}) =>
          ~killAttempted /\ ~sigusr1Sent

\* C5 witness: the signal went out after the file was created and closed
C5_Witness ==
    sigusr1Sent /\ triggerCreated /\ triggerClosed

\* C6: the exit code is 0 exactly when the trigger file was created and
\* closed and SIGUSR1 was delivered; an exit taken in initialize, on
\* postmaster death or at a failed promotion step has code 1.
C6_ExitCodes ==
    pc = "exit" =>
        /\ exitCode \in {0, 1}
        /\ exitCode = 0 <=> (triggerCreated /\ triggerClosed /\ sigusr1Sent)
        /\ exitAt \in {"initialize", "death_check", "fopen", "fclose", "kill"}
              => exitCode = 1

\* C6 witness: exit after a complete promotion
C6_Witness ==
    pc = "exit" /\ exitCode = 0 /\ exitAt = "return"

\* C7: from the moment WaitLatch reports postmaster death, the worker is at
\* the latch reset, at the death test or has exited with code 1 from that
\* test, and no step reloads the configuration, probes, counts a failure or
\* performs a promotion step.
C7_PostmasterDeathBailout ==
    /\ []("WL_POSTMASTER_DEATH" \in rc =>
             /\ pc \in {"reset", "death_check", "exit"}
             /\ pc = "exit" => exitCode = 1 /\ exitAt = "death_check")
    /\ [][("WL_POSTMASTER_DEATH" \in rc) =>
             /\ UNCHANGED <<promoter_keepalives, reloadedThisIter, probes,
                            retry_count, promoteCalls>>
             /\ UNCHANGED promoteVars]_vars

\* C7 witness: death reported with a reload request and failures pending
C7_Witness ==
    /\ "WL_POSTMASTER_DEATH" \in rc
    /\ pc = "exit"
    /\ got_sighup
    /\ retry_count > 0

\* C8: in a loop iteration woken by SIGHUP alone, before the timer elapsed,
\* no probe is executed and the failure counter does not change.
C8_NoProbeAfterReloadWake ==
    [][wokenBySighup =>
          probes' = probes /\ retry_count' = retry_count]_vars

\* C9: if the connection made in initialize is missing or not in the OK
\* state, the worker has exited with code 1 from initialize, with no wait,
\* no probe and no promotion.
C9_StartupCheckFailsFast ==
    startCon \in {"NULL", "BAD"} =>
        /\ pc = "exit" /\ exitCode = 1 /\ exitAt = "initialize"
        /\ waitTimeout = 0
        /\ probes = <<>>
        /\ promoteCalls = 0

\* C10: every wait runs with the timeout promoter_keepalives * 1000 of the
\* value in force when it started; only ProcessConfigFile changes that
\* value, and it sets it to the value of the configuration file.
C10_WaitUsesReloadedInterval ==
    /\ [](pc = "wait" => waitTimeout = promoter_keepalives * MsPerSec)
    /\ [][pc = "reload" /\ pc' # pc =>
             promoter_keepalives' = confFile]_vars
    /\ [][promoter_keepalives' # promoter_keepalives => pc = "reload"]_vars

\* C10 witness: a wait with the 1 s timeout; the run started with 3 s, so
\* a reload changed it after an earlier wait
C10_Witness ==
    /\ pc = "wait"
    /\ promoter_keepalives = 1
    /\ waitTimeout = 1 * MsPerSec
    /\ promoter_keepalives # DefaultKeepalives

\* C12: the failure counter equals the number of failed probes of the run;
\* a failed probe adds exactly 1 and a successful one leaves it unchanged.
C12_StickyCounter ==
    /\ [](retry_count = FailCount(probes))
    /\ [][Len(probes') = Len(probes) + 1 =>
             retry_count' = retry_count +
                 (IF probes'[Len(probes')] THEN 0 ELSE 1)]_vars

\* C12 witness: fail, fail, succeed leaves the counter at 2
C12_Witness ==
    probes = <<FALSE, FALSE, TRUE>> /\ retry_count = 2

\* C14: doPromote is entered at most once; once it has been entered the
\* worker is inside doPromote or has exited, and no step waits, reloads,
\* probes, counts a failure or enters doPromote again.
C14_PromoteOnceThenExit ==
    /\ [](promoteCalls <= 1)
    /\ [](promoteCalls = 1 => pc \in PromotePcs \cup {"exit"})
    /\ [](pc \in PromotePcs => promoteCalls = 1)
    /\ [][promoteCalls >= 1 =>
             UNCHANGED <<probes, retry_count, promoter_keepalives,
                         waitTimeout, rc, reloadedThisIter, promoteCalls>>]_vars

\* C14 witness: the run ended after a promotion attempt that failed
C14_Witness ==
    promoteCalls = 1 /\ pc = "exit" /\ exitCode = 1 /\ exitAt = "kill"

\* the steps of doPromote that ran, and the exit code, are those fixed by
\* the results of fopen, fclose and kill alone
PromoteOutcome ==
    /\ pc = "fclose" => triggerCreated
    /\ pc = "log" => triggerCreated /\ triggerClosed
    /\ pc = "kill" => triggerCreated /\ triggerClosed /\ promoteLogged
    /\ pc = "return" => triggerCreated /\ triggerClosed /\ promoteLogged
                         /\ killAttempted /\ sigusr1Sent
    /\ (pc = "exit" /\ promoteCalls = 1) =>
          /\ exitAt \in PromotePcs
          /\ exitAt = "fopen" =>
                exitCode = 1 /\ ~triggerCreated /\ ~triggerClosed
                /\ ~promoteLogged /\ ~killAttempted
          /\ exitAt = "fclose" =>
                exitCode = 1 /\ triggerCreated /\ ~triggerClosed
                /\ ~promoteLogged /\ ~killAttempted
          /\ exitAt = "kill" =>
                exitCode = 1 /\ triggerCreated /\ triggerClosed
                /\ promoteLogged /\ killAttempted /\ ~sigusr1Sent
          /\ exitAt = "return" =>
                exitCode = 0 /\ triggerCreated /\ triggerClosed
                /\ promoteLogged /\ killAttempted /\ sigusr1Sent
          /\ exitAt \notin {"log"}

\* C15: a SIGTERM or SIGHUP delivered inside doPromote moves neither the
\* position nor any promotion result, every step of doPromote leads to the
\* next step or to proc_exit, and the steps run and the exit code are fixed
\* by the results of fopen, fclose and kill whatever signals arrived.
C15_SignalsDoNotInterruptPromotion ==
    /\ []PromoteOutcome
    /\ [][(pc \in PromotePcs /\
           (got_sigterm' # got_sigterm \/ got_sighup' # got_sighup
            \/ latch' # latch)) =>
             /\ pc' = pc
             /\ UNCHANGED promoteVars
             /\ UNCHANGED <<exitCode, exitAt>>]_vars
    /\ [][(pc \in PromotePcs) => (pc' \in (PromotePcs \cup {"exit"}))]_vars

\* C15 witness: SIGTERM arrived inside doPromote, a SIGHUP is pending, and
\* the promotion still completed with exit code 0
C15_Witness ==
    /\ sigtermAt = "promote"
    /\ got_sighup
    /\ pc = "exit"
    /\ exitCode = 0
    /\ sigusr1Sent

\* C17 (as claimed): in a run that logged the promotion message, the
\* trigger file was created and closed and SIGUSR1 was delivered.
C17_LogOnlyAfterAllSteps ==
    (pc = "exit" /\ promoteLogged) =>
        triggerCreated /\ triggerClosed /\ sigusr1Sent

\* C17 (amended): the promotion message is logged only when the trigger
\* file has been created and closed, and it is logged before kill is
\* called.
C17_LogAfterFileBeforeSignal ==
    /\ [](promoteLogged => triggerCreated /\ triggerClosed)
    /\ [](killAttempted => promoteLogged)
    /\ [][(~promoteLogged /\ promoteLogged') =>
             ~killAttempted /\ ~killAttempted']_vars

\* C17 witness: the message was logged and the signal then failed
C17_Witness ==
    /\ promoteLogged
    /\ killAttempted
    /\ ~sigusr1Sent
    /\ pc = "exit"

\* C19: 0 <= retry_count <= 5 in every state, the counter is 0 when the
\* loop is first entered, it never decreases, and the loop test and the
\* wait are only reached with a counter below 5.
C19_CounterBounded ==
    /\ [](retry_count \in 0..RetryLimit)
    /\ [](probes = <<>> => retry_count = 0)
    /\ [](pc \in {"loop", "wait", "reset", "death_check", "sighup_check",
                  "sighup_clear", "reload", "probe"} =>
             retry_count < RetryLimit)
    /\ [](retry_count = RetryLimit =>
             pc \in {"threshold", "exit"} \cup PromotePcs)
    /\ [][retry_count' >= retry_count]_vars

\* C19 witness: the counter reached 5 and the promotion was entered
C19_Witness ==
    retry_count = RetryLimit /\ pc = "fopen"

CheckStep == pc = "sighup_check" /\ pc' # pc

\* C16 (as claimed): a test of got_sighup starts a reload exactly when at
\* least one SIGHUP was delivered since the previous test.
C16_ReloadPerCheckInterval ==
    [][CheckStep => (pc' = "sighup_clear" <=> hupSinceCheck)]_vars

\* C16 (amended): a test of got_sighup starts a reload exactly when at
\* least one SIGHUP was delivered since the flag was last cleared, however
\* many there were; the test is followed by one clear and one
\* ProcessConfigFile; a test with no delivery since the previous test
\* starts none.
C16_ReloadPerClearInterval ==
    /\ [](got_sighup = hupSinceClear)
    /\ [][CheckStep => (pc' = "sighup_clear" <=> hupSinceClear)]_vars
    /\ [][(CheckStep /\ ~hupSinceCheck) => pc' = "probe"]_vars
    /\ [][(pc = "sighup_clear" /\ pc' # pc) => pc' = "reload"]_vars
    /\ [][(pc = "reload" /\ pc' # pc) =>
             pc' = "probe" /\ reloadedThisIter' /\ ~reloadedThisIter]_vars
    /\ [][(reloadedThisIter' /\ ~reloadedThisIter) => pc = "reload"]_vars

\* C16 witness: a SIGHUP arrived between the test and the clear of the
\* flag, and the reload of that iteration has run
C16_Witness ==
    /\ hupSinceCheck
    /\ ~hupSinceClear
    /\ reloadedThisIter
    /\ pc = "probe"

\* C11: a SIGTERM delivered after the signals are unblocked and before
\* doPromote is entered is eventually followed by the exit of the worker.
C11_SigtermLeadsToExit ==
    (sigtermAt \in {"wait", "loop"}) ~> (pc = "exit")

\* C11 witness: the worker left the loop on the shutdown request
C11_Witness ==
    /\ sigtermAt \in {"wait", "loop"}
    /\ pc = "exit"
    /\ exitAt = "loop"
    /\ exitCode = 1

\* the probe bound of the model stops the loop
ProbesExhausted == pc = "loop" /\ Len(probes) >= MaxProbes

\* C18: got_sighup is cleared only by the step that leads to
\* ProcessConfigFile, which then runs; a test that finds the flag set starts
\* the reload; a flag that is pending while the worker waits has the latch
\* set, so the latch reset hides nothing; and a pending flag is eventually
\* followed by the reload unless the worker exits first.
C18_NoReloadLost ==
    /\ [][(got_sighup /\ ~got_sighup') =>
             (pc = "sighup_clear" /\ pc' = "reload")]_vars
    /\ [][(pc = "reload" /\ pc' # pc) =>
             (reloadedThisIter' /\ promoter_keepalives' = confFile)]_vars
    /\ [][(CheckStep /\ got_sighup) => pc' = "sighup_clear"]_vars
    /\ []((got_sighup /\ ~latch) =>
             pc \in {"death_check", "sighup_check", "sighup_clear", "exit"})
    /\ []((got_sighup /\ pc = "wait") => latch)
    /\ (got_sighup ~> (pc = "reload" \/ pc = "exit" \/ ProbesExhausted))

\* C18 witness: a SIGHUP that arrived between the return of WaitLatch and
\* ResetLatch is still pending after the reset, with the latch cleared
C18_Witness ==
    /\ got_sighup
    /\ ~latch
    /\ pc = "death_check"
    /\ rc = {"WL_TIMEOUT"}

====
